---- MODULE Spec2Model ----
(***************************************************************************)
(* Failover relay of server.js: an HTTP server that forwards two proxied   *)
(* operations (POST /api/records, POST /api/contact/list) to the first     *)
(* upstream base URL that succeeds, remembers that base in pinnedBaseUrl,  *)
(* and serves a few static files.                                          *)
(*                                                                         *)
(* Each request is handled by one invocation of the async handler of       *)
(* createServer.  An invocation occupies a slot c \in Calls; its local     *)
(* variables are the c-th components of the variables below.  The only     *)
(* state shared between invocations is pinnedBaseUrl.  The handler is      *)
(* suspended only at an await: the steps between two awaits are atomic and *)
(* each is one action.  Reading the request body (an await that touches no *)
(* shared state) is folded into the action that starts the handler.        *)
(***************************************************************************)
EXTENDS Integers, Sequences, FiniteSets, TLC

\* Number of handler invocations that may be in flight together.
MaxCalls == 2
\* Number of entries of BASE_URLS kept by the model (server.js lists five;
\* the loops and getBasesToTry treat the list uniformly in its length).
NumBases == 3

\* pinnedBaseUrl = null
NoBase == 0
\* The fixed host list; base i stands for the i-th URL of the list.
BASE_URLS == [i \in 1..NumBases |-> i]
Bases == {BASE_URLS[i] : i \in DOMAIN BASE_URLS}
Calls == 1..MaxCalls

(***************************************************************************)
(* JavaScript values of the request body's fields.                          *)
(***************************************************************************)
Undefined == [t |-> "undefined"]
Null == [t |-> "null"]
Str(s) == [t |-> "string", s |-> s]
Arr(a) == [t |-> "array", a |-> a]
Obj(f) == [t |-> "object", f |-> f]

\* !x is false
Truthy(x) == IF x.t = "string" THEN x.s # "" ELSE x.t \in {"array", "object"}
\* Array.isArray(x)
IsArray(x) == x.t = "array"

\* A string holding a lone surrogate: encodeURIComponent throws URIError on it.
LoneSurrogate == "<U+D800>"
\* encodeURIComponent(objectKey) returns (does not throw)
Encodable(x) == ~(x.t = "string" /\ x.s = LoneSurrogate)

\* The fields the handler destructures; {} has them all undefined.
Fields(a, o, t, g, u) ==
    [apiKey |-> a, objectKey |-> o, continuationToken |-> t,
     groupListName |-> g, userProfileIds |-> u]
EmptyObject == Obj(Fields(Undefined, Undefined, Undefined, Undefined, Undefined))

(***************************************************************************)
(* Message bodies: a text as received or sent, or the text that            *)
(* JSON.stringify produces for a value (kept as the value it encodes).     *)
(***************************************************************************)
Text(s) == [kind |-> "text", text |-> s]
Json(v) == [kind |-> "json", value |-> v]
FileData(p) == [kind |-> "file", path |-> p]
\* body is the empty string (the only falsy string)
IsEmptyText(b) == b.kind = "text" /\ b.text = ""

(***************************************************************************)
(* Inputs.                                                                  *)
(***************************************************************************)
ApiKeys == {Undefined, Str(""), Str("key")}
ObjectKeys == {Undefined, Str(""), Str("orders"), Str(LoneSurrogate)}
Tokens == {Undefined, Str("tok")}
GroupListNames == {Undefined, Str(""), Str("vip")}
UserProfileIdsValues == {Undefined, Str("p1"), Arr(<<>>), Arr(<<"p1">>)}

RecordsObjects ==
    {Obj(Fields(a, o, t, Undefined, Undefined)) :
        a \in ApiKeys, o \in ObjectKeys, t \in Tokens}
ContactObjects ==
    {Obj(Fields(a, Undefined, Undefined, g, u)) :
        a \in ApiKeys, g \in GroupListNames, u \in UserProfileIdsValues}

\* The raw request body: nothing, text that is not JSON, or the JSON text of a value.
EmptyRaw == [kind |-> "empty"]
MalformedRaw == [kind |-> "malformed"]
JsonRaw(v) == [kind |-> "json", value |-> v]
RawBodies ==
    {EmptyRaw, MalformedRaw, JsonRaw(Null)}
        \cup {JsonRaw(v) : v \in RecordsObjects \cup ContactObjects}

Paths == {"/api/records", "/api/contact/list", "/", "/style.css", "/missing.html", "/public"}
Queries == {"", "v=1"}
\* req.url: the path, and the text after "?" ("" when there is none)
Urls == [path : Paths, query : Queries]

\* The body of a request that is not a POST is never read.
Requests ==
    [method : {"POST"}, url : Urls, raw : RawBodies]
        \cup [method : {"GET", "PUT", "OPTIONS"}, url : Urls, raw : {EmptyRaw}]

\* What an upstream attempt ends in: a response, or a transport error.
Response(s, b) == [kind |-> "response", status |-> s, body |-> Text(b)]
TransportError == [kind |-> "error", message |-> "connect ECONNREFUSED"]
RecordsText == "{\"records\":[]}"
Outcomes ==
    {Response(200, RecordsText), Response(200, ""), Response(201, "{\"id\":1}"),
     Response(204, ""), Response(502, "Bad Gateway"),
     Response(503, "Service Unavailable"), TransportError}

(***************************************************************************)
(* The file system under __dirname.                                         *)
(***************************************************************************)
Files == {"/index.html", "/style.css", "/script.js"}
Directories == {"/public"}

VARIABLES
    pinnedBaseUrl,      \* the module-level pinnedBaseUrl
    pc,                 \* per call: "idle", "try" (awaiting an upstream attempt), "done"
    req,                \* per call: the request being handled
    basesToTry,         \* per call: the local basesToTry of the relay function
    idx,                \* per call: position of the for-of loop in basesToTry
    errors,             \* per call: the local errors array
    resp,               \* per call: what the latest attempt ended in (the local resp, or err)
    upstreamResponse,   \* per call: what the relay function returned
    res,                \* per call: the response object (headers, then status and body)
    contacted,          \* per call: the bases an outbound request was issued to, in order
    pinSteady           \* history: no attempt on pinnedBaseUrl has failed since it was last changed

vars == <<pinnedBaseUrl, pc, req, basesToTry, idx, errors, resp, upstreamResponse, res,
          contacted, pinSteady>>

NoRequest == [method |-> "none", url |-> [path |-> "", query |-> ""], raw |-> EmptyRaw]
NoResponse == [sent |-> FALSE]
NoOutcome == [kind |-> "none"]

Init ==
    /\ pinnedBaseUrl = NoBase
    /\ pc = [c \in Calls |-> "idle"]
    /\ req = [c \in Calls |-> NoRequest]
    /\ basesToTry = [c \in Calls |-> <<>>]
    /\ idx = [c \in Calls |-> 0]
    /\ errors = [c \in Calls |-> <<>>]
    /\ resp = [c \in Calls |-> NoOutcome]
    /\ upstreamResponse = [c \in Calls |-> NoResponse]
    /\ res = [c \in Calls |-> NoResponse]
    /\ contacted = [c \in Calls |-> <<>>]
    /\ pinSteady = TRUE

(***************************************************************************)
(* Pure parts of the handler.                                               *)
(***************************************************************************)
\* Mutation of CorsHeaders: OPTIONS is left out of the allowed methods.
CorsHeaders_NoOptions ==
    ("Access-Control-Allow-Origin" :> "*")
        @@ ("Access-Control-Allow-Methods" :> "GET,POST")
        @@ ("Access-Control-Allow-Headers" :> "Content-Type")

\* res.setHeader(...) x 3
CorsHeaders ==
    ("Access-Control-Allow-Origin" :> "*")
        @@ ("Access-Control-Allow-Methods" :> "GET,POST,OPTIONS")
        @@ ("Access-Control-Allow-Headers" :> "Content-Type")

JsonType == ("Content-Type" :> "application/json")
NoHeaders == [h \in {} |-> ""]

\* res.writeHead(status, headers); res.end(body): headers given to writeHead
\* are merged over those already set on the response, and http.ServerResponse
\* sends no body with a 204 or 304 (or 1xx) status: what end() is given is dropped.
Bodiless(status) == status \in {204, 304} \/ (status >= 100 /\ status <= 199)
Send(r, status, headers, body) ==
    [sent |-> TRUE, status |-> status, headers |-> headers @@ r.headers,
     body |-> IF Bodiless(status) THEN Text("") ELSE body]

\* readJsonBody: {} for an empty body and for text JSON.parse rejects
readJsonBody(raw) ==
    IF raw.kind = "empty" THEN EmptyObject
    ELSE IF raw.kind = "malformed" THEN EmptyObject
    ELSE raw.value

\* body || {}
OrEmpty(body) == IF Truthy(body) THEN body ELSE EmptyObject
\* the destructured fields of the request body
BodyFields(r) == OrEmpty(readJsonBody(r.raw)).f

\* Mutation of RecordsMissing: the test of objectKey is forgotten.
RecordsMissing_ApiKeyOnly(f) == ~Truthy(f.apiKey)

\* !apiKey || !objectKey
RecordsMissing(f) == ~Truthy(f.apiKey) \/ ~Truthy(f.objectKey)
\* !apiKey || !groupListName || !Array.isArray(userProfileIds)
ContactMissing(f) ==
    ~Truthy(f.apiKey) \/ ~Truthy(f.groupListName) \/ ~IsArray(f.userProfileIds)

\* req.url === "/api/records" && req.method === "POST"
IsRecords(r) == r.url.path = "/api/records" /\ r.url.query = "" /\ r.method = "POST"
\* req.url === "/api/contact/list" && req.method === "POST"
IsContact(r) == r.url.path = "/api/contact/list" /\ r.url.query = "" /\ r.method = "POST"

\* Mutation of ClientBody: the body is passed on as it is.
ClientBody_NoFallback(body) == body

\* upstreamResponse.body || "{}"
ClientBody(body) == IF IsEmptyText(body) THEN Text("{}") ELSE body

\* Mutation of FetchOk: the record fetch takes any 2xx, as the contact list does.
FetchOk_Any2xx(o) == o.status >= 200 /\ o.status <= 299

\* resp.status === 200
FetchOk(o) == o.status = 200

\* Mutation of PostOk: the upper end of the 2xx range is not tested.
PostOk_NoUpperEnd(o) == o.status >= 200

\* resp.ok
PostOk(o) == o.status >= 200 /\ o.status <= 299

\* The 502 result of an exhausted relay call.
AllFailed(errs) ==
    [status |-> 502, body |-> Json([error |-> "All base URLs failed", attempts |-> errs])]

\* Mutation of FailureRecord: a transport failure is recorded like a
\* response, with a status and the message as its body.
FailureRecord_ErrorAsResponse(base, o) ==
    IF o.kind = "response"
    THEN [base |-> base, status |-> o.status, body |-> o.body]
    ELSE [base |-> base, status |-> 500, body |-> Text(o.message)]

\* errors.push({ base, status, body }) / errors.push({ base, error })
FailureRecord(base, o) ==
    IF o.kind = "response"
    THEN [base |-> base, status |-> o.status, body |-> o.body]
    ELSE [base |-> base, error |-> o.message]

\* Mutations of getBasesToTry: the pinned base is not filtered out of the
\* rest; the pinned base is ignored; the pinned base is put last.
getBasesToTry_NoFilter ==
    IF pinnedBaseUrl = NoBase THEN BASE_URLS ELSE <<pinnedBaseUrl>> \o BASE_URLS
getBasesToTry_Unpinned == BASE_URLS
getBasesToTry_PinnedLast ==
    IF pinnedBaseUrl = NoBase THEN BASE_URLS
    ELSE SelectSeq(BASE_URLS, LAMBDA base : base # pinnedBaseUrl) \o <<pinnedBaseUrl>>

\* getBasesToTry()
getBasesToTry ==
    IF pinnedBaseUrl = NoBase THEN BASE_URLS
    ELSE <<pinnedBaseUrl>> \o SelectSeq(BASE_URLS, LAMBDA base : base # pinnedBaseUrl)

\* Mutation of resolvePath: "/" is not mapped to the index document.
resolvePath_NoIndex(url) == url.path

\* resolvePath(req.url), relative to __dirname
resolvePath(url) == IF url.path = "/" THEN "/index.html" ELSE url.path

\* stat(p) succeeds and fileStat.isFile(): a directory is no file, and stat
\* of a missing path throws (the handler falls through to the 404)
IsFile(p) == p \in Files /\ p \notin Directories

\* path.extname and the CONTENT_TYPES lookup
ContentType(p) ==
    CASE p \in {"/index.html", "/missing.html"} -> "text/html; charset=utf-8"
      [] p = "/style.css" -> "text/css; charset=utf-8"
      [] p = "/script.js" -> "application/javascript; charset=utf-8"
      [] OTHER -> "application/octet-stream"

(***************************************************************************)
(* The handler, by route.  Every route first sets the CORS headers.         *)
(***************************************************************************)
Begin(c, r) ==
    /\ pc[c] = "idle"
    /\ req' = [req EXCEPT ![c] = r]

\* The handler answers at once with `response`; no relay call is made.
Answer(c, response) ==
    /\ pc' = [pc EXCEPT ![c] = "done"]
    /\ res' = [res EXCEPT ![c] = response]
    /\ UNCHANGED <<pinnedBaseUrl, basesToTry, idx, errors, resp, upstreamResponse,
                   contacted, pinSteady>>

\* The relay function is entered: the ordering is computed and the request
\* to its first base is issued; the call waits for the outcome.
Enter(c) ==
    /\ pc' = [pc EXCEPT ![c] = "try"]
    /\ res' = [res EXCEPT ![c] = [sent |-> FALSE, headers |-> CorsHeaders]]
    /\ basesToTry' = [basesToTry EXCEPT ![c] = getBasesToTry]
    /\ idx' = [idx EXCEPT ![c] = 1]
    /\ contacted' = [contacted EXCEPT ![c] = <<getBasesToTry[1]>>]
    /\ UNCHANGED <<pinnedBaseUrl, errors, resp, upstreamResponse, pinSteady>>

\* Mutation of InternalError: the message of the caught error is sent along.
InternalError_Leaky ==
    Send([headers |-> CorsHeaders], 500, JsonType,
         Json([error |-> "Internal server error", message |-> "URI malformed"]))

\* catch (err): the generic 500
InternalError ==
    Send([headers |-> CorsHeaders], 500, JsonType, Json([error |-> "Internal server error"]))

\* req.method === "OPTIONS"
Options(c, r) ==
    /\ r.method = "OPTIONS"
    /\ Begin(c, r)
    /\ Answer(c, Send([headers |-> CorsHeaders], 204, NoHeaders, Text("")))

\* POST /api/records up to the first await inside fetchViaAvailableBase
RecordsRoute(c, r) ==
    /\ r.method # "OPTIONS"
    /\ IsRecords(r)
    /\ Begin(c, r)
    /\ IF RecordsMissing(BodyFields(r))
       THEN Answer(c, Send([headers |-> CorsHeaders], 400, JsonType,
                           Json([error |-> "apiKey and objectKey are required"])))
       ELSE IF ~Encodable(BodyFields(r).objectKey)
       THEN Answer(c, InternalError)
       ELSE Enter(c)

\* POST /api/contact/list up to the first await inside postViaAvailableBase
ContactRoute(c, r) ==
    /\ r.method # "OPTIONS"
    /\ ~IsRecords(r)
    /\ IsContact(r)
    /\ Begin(c, r)
    /\ IF ContactMissing(BodyFields(r))
       THEN Answer(c, Send([headers |-> CorsHeaders], 400, JsonType,
                           Json([error |-> "apiKey, groupListName, and userProfileIds are required"])))
       ELSE Enter(c)

NotFound ==
    Send([headers |-> CorsHeaders], 404, JsonType, Json([error |-> "Not found"]))

\* Static assets, and the final 404
Static(c, r) ==
    /\ r.method # "OPTIONS"
    /\ ~IsRecords(r)
    /\ ~IsContact(r)
    /\ Begin(c, r)
    /\ IF r.method = "GET" /\ IsFile(resolvePath(r.url))
       THEN Answer(c, Send([headers |-> CorsHeaders], 200,
                           ("Content-Type" :> ContentType(resolvePath(r.url))),
                           FileData(resolvePath(r.url))))
       ELSE Answer(c, NotFound)

(***************************************************************************)
(* The relay loops.  One action is one resumption of the loop: the attempt *)
(* on basesToTry[idx] ends in outcome o; the loop either returns (and the  *)
(* handler writes the response) or records the failure and issues the      *)
(* request to the next base.                                               *)
(***************************************************************************)
\* Mutation of Succeed: the successful base is not pinned.
Succeed_NoPin(c, base, o) ==
    /\ resp' = [resp EXCEPT ![c] = o]
    /\ upstreamResponse' = [upstreamResponse EXCEPT ![c] = [status |-> o.status, body |-> o.body]]
    /\ res' = [res EXCEPT ![c] = Send(res[c], o.status, JsonType, ClientBody(o.body))]
    /\ pc' = [pc EXCEPT ![c] = "done"]
    /\ UNCHANGED <<pinnedBaseUrl, pinSteady, req, basesToTry, idx, errors, contacted>>

\* Mutation of Succeed: a base is pinned only while none is pinned yet.
Succeed_KeepFirst(c, base, o) ==
    /\ resp' = [resp EXCEPT ![c] = o]
    /\ pinnedBaseUrl' = IF pinnedBaseUrl = NoBase THEN base ELSE pinnedBaseUrl
    /\ pinSteady' = pinSteady
    /\ upstreamResponse' = [upstreamResponse EXCEPT ![c] = [status |-> o.status, body |-> o.body]]
    /\ res' = [res EXCEPT ![c] = Send(res[c], o.status, JsonType, ClientBody(o.body))]
    /\ pc' = [pc EXCEPT ![c] = "done"]
    /\ UNCHANGED <<req, basesToTry, idx, errors, contacted>>

\* pinnedBaseUrl = base; return resp; then the handler's writeHead/end
Succeed(c, base, o) ==
    /\ resp' = [resp EXCEPT ![c] = o]
    /\ pinnedBaseUrl' = base
    /\ pinSteady' = IF base = pinnedBaseUrl THEN pinSteady ELSE TRUE
    /\ upstreamResponse' = [upstreamResponse EXCEPT ![c] = [status |-> o.status, body |-> o.body]]
    /\ res' = [res EXCEPT ![c] = Send(res[c], o.status, JsonType, ClientBody(o.body))]
    /\ pc' = [pc EXCEPT ![c] = "done"]
    /\ UNCHANGED <<req, basesToTry, idx, errors, contacted>>

\* Mutations of Fail.  FailVariant is Fail with the value written to
\* pinnedBaseUrl and the ordering the loop goes on with left open.
FailVariant(c, base, o, pin, order) ==
    LET errs == Append(errors[c], FailureRecord(base, o)) IN
    /\ resp' = [resp EXCEPT ![c] = o]
    /\ errors' = [errors EXCEPT ![c] = errs]
    /\ pinSteady' = IF base = pinnedBaseUrl THEN FALSE ELSE pinSteady
    /\ idx' = [idx EXCEPT ![c] = idx[c] + 1]
    /\ IF idx[c] < Len(order)
       THEN /\ contacted' = [contacted EXCEPT ![c] = Append(contacted[c], order[idx[c] + 1])]
            /\ UNCHANGED <<pc, upstreamResponse, res>>
       ELSE /\ upstreamResponse' = [upstreamResponse EXCEPT ![c] = AllFailed(errs)]
            /\ res' = [res EXCEPT ![c] =
                          Send(res[c], AllFailed(errs).status, JsonType,
                               ClientBody(AllFailed(errs).body))]
            /\ pc' = [pc EXCEPT ![c] = "done"]
            /\ UNCHANGED contacted
    /\ pinnedBaseUrl' = pin
    /\ basesToTry' = [basesToTry EXCEPT ![c] = order]
    /\ UNCHANGED req
\* the pinned base is unpinned when an attempt on it fails
Fail_Unpin(c, base, o) ==
    FailVariant(c, base, o, IF base = pinnedBaseUrl THEN NoBase ELSE pinnedBaseUrl,
                basesToTry[c])
\* the base is pinned before the status of its response is tested
Fail_PinsAnyResponse(c, base, o) ==
    FailVariant(c, base, o, IF o.kind = "response" THEN base ELSE pinnedBaseUrl,
                basesToTry[c])
\* the ordering is computed anew in every iteration
Fail_Reorder(c, base, o) ==
    FailVariant(c, base, o, pinnedBaseUrl, getBasesToTry)
\* the failed base is tried again
Fail_Retry(c, base, o) ==
    /\ resp' = [resp EXCEPT ![c] = o]
    /\ contacted' = [contacted EXCEPT ![c] = Append(contacted[c], base)]
    /\ UNCHANGED <<pinnedBaseUrl, pc, req, basesToTry, idx, errors, upstreamResponse, res,
                   pinSteady>>

\* errors.push(...); next iteration, or the 502 after the last base
Fail(c, base, o) ==
    LET errs == Append(errors[c], FailureRecord(base, o)) IN
    /\ resp' = [resp EXCEPT ![c] = o]
    /\ errors' = [errors EXCEPT ![c] = errs]
    /\ pinSteady' = IF base = pinnedBaseUrl THEN FALSE ELSE pinSteady
    /\ idx' = [idx EXCEPT ![c] = idx[c] + 1]
    /\ IF idx[c] < Len(basesToTry[c])
       THEN /\ contacted' = [contacted EXCEPT ![c] = Append(contacted[c], basesToTry[c][idx[c] + 1])]
            /\ UNCHANGED <<pc, upstreamResponse, res>>
       ELSE /\ upstreamResponse' = [upstreamResponse EXCEPT ![c] = AllFailed(errs)]
            /\ res' = [res EXCEPT ![c] =
                          Send(res[c], AllFailed(errs).status, JsonType,
                               ClientBody(AllFailed(errs).body))]
            /\ pc' = [pc EXCEPT ![c] = "done"]
            /\ UNCHANGED contacted
    /\ UNCHANGED <<pinnedBaseUrl, req, basesToTry>>

\* One resumption of the loop of fetchViaAvailableBase.  proxyGetWithBody
\* resolves with the status and body of the upstream response and rejects on
\* a request error.
fetchViaAvailableBase(c, o) ==
    /\ pc[c] = "try"
    /\ IsRecords(req[c])
    /\ IF o.kind = "response" /\ FetchOk(o)
       THEN Succeed(c, basesToTry[c][idx[c]], o)
       ELSE Fail(c, basesToTry[c][idx[c]], o)

\* One resumption of the loop of postViaAvailableBase: fetch and resp.text()
\* both settled (either may reject).
postViaAvailableBase(c, o) ==
    /\ pc[c] = "try"
    /\ IsContact(req[c])
    /\ IF o.kind = "response" /\ PostOk(o)
       THEN Succeed(c, basesToTry[c][idx[c]], o)
       ELSE Fail(c, basesToTry[c][idx[c]], o)

\* The response has been delivered; the invocation and its locals are gone.
Finish(c) ==
    /\ pc[c] = "done"
    /\ pc' = [pc EXCEPT ![c] = "idle"]
    /\ req' = [req EXCEPT ![c] = NoRequest]
    /\ basesToTry' = [basesToTry EXCEPT ![c] = <<>>]
    /\ idx' = [idx EXCEPT ![c] = 0]
    /\ errors' = [errors EXCEPT ![c] = <<>>]
    /\ resp' = [resp EXCEPT ![c] = NoOutcome]
    /\ upstreamResponse' = [upstreamResponse EXCEPT ![c] = NoResponse]
    /\ res' = [res EXCEPT ![c] = NoResponse]
    /\ contacted' = [contacted EXCEPT ![c] = <<>>]
    /\ UNCHANGED <<pinnedBaseUrl, pinSteady>>

(***************************************************************************)
(* Spec: requests of every shape and upstream outcomes of every kind, one  *)
(* request handled at a time.                                               *)
(***************************************************************************)
Quiet == \A d \in Calls : pc[d] = "idle"

Next ==
    \E c \in Calls :
        \/ Quiet /\ \E r \in Requests : Options(c, r)
        \/ Quiet /\ \E r \in Requests : RecordsRoute(c, r)
        \/ Quiet /\ \E r \in Requests : ContactRoute(c, r)
        \/ Quiet /\ \E r \in Requests : Static(c, r)
        \/ \E o \in Outcomes : fetchViaAvailableBase(c, o) \/ postViaAvailableBase(c, o)
        \/ Finish(c)

Spec == Init /\ [][Next]_vars

\* Every outbound attempt ends, in a response or in a transport error.
AttemptCompletes(c) ==
    \E o \in Outcomes : fetchViaAvailableBase(c, o) \/ postViaAvailableBase(c, o)

\* Spec, with every outbound attempt ending eventually.
FairSpec == Spec /\ \A c \in Calls : WF_vars(AttemptCompletes(c))

(***************************************************************************)
(* SpecConc: up to MaxCalls relay calls in flight together, interleaved at *)
(* their awaits.                                                            *)
(***************************************************************************)
ConcRequests ==
    {r \in Requests :
        /\ IsRecords(r) \/ IsContact(r)
        /\ r.raw.kind = "json"
        /\ r.raw.value.t = "object"
        /\ r.raw.value.f.continuationToken = Undefined
        /\ r.raw.value.f.userProfileIds \in {Undefined, Arr(<<"p1">>)}
        /\ IF IsRecords(r) THEN ~RecordsMissing(r.raw.value.f) /\ Encodable(r.raw.value.f.objectKey)
                           ELSE ~ContactMissing(r.raw.value.f)}
ConcOutcomes ==
    {Response(200, RecordsText), Response(503, "Service Unavailable")}

NextConc ==
    \E c \in Calls :
        \/ \E r \in ConcRequests : RecordsRoute(c, r) \/ ContactRoute(c, r)
        \/ \E o \in ConcOutcomes : fetchViaAvailableBase(c, o) \/ postViaAvailableBase(c, o)
        \/ Finish(c)

SpecConc == Init /\ [][NextConc]_vars

(***************************************************************************)
(* Properties.                                                              *)
(***************************************************************************)
\* Field `name` of the body as the client sent it (undefined when the body
\* is empty, is not JSON, or is not an object).
SentField(r, name) ==
    IF r.raw.kind = "json" /\ r.raw.value.t = "object" THEN r.raw.value.f[name] ELSE Undefined

\* A proxied request that lacks a required field.
Lacking(r) ==
    \/ /\ IsRecords(r)
       /\ ~Truthy(SentField(r, "apiKey")) \/ ~Truthy(SentField(r, "objectKey"))
    \/ /\ IsContact(r)
       /\ \/ ~Truthy(SentField(r, "apiKey"))
          \/ ~Truthy(SentField(r, "groupListName"))
          \/ ~IsArray(SentField(r, "userProfileIds"))

\* Call c takes the step that starts its handler.
Starts(c) == pc[c] = "idle" /\ pc'[c] # "idle"
\* Call c takes the step in which an attempt of its succeeds.
SucceedsNow(c) == pc[c] = "try" /\ pc'[c] = "done" /\ idx'[c] = idx[c]
\* Call c has ended with a successful attempt.
Succeeded(c) == pc[c] = "done" /\ Len(errors[c]) < Len(contacted[c])
\* Call c has ended with every attempt it made failed.
Exhausted(c) == pc[c] = "done" /\ contacted[c] # <<>> /\ Len(errors[c]) = Len(contacted[c])

\* What reaches the client of an upstream body b sent with status s.
Delivered(s, b) == IF b = Text("") /\ s # 204 THEN Text("{}") ELSE b

\* C1: a proxied request that lacks a required field (apiKey or objectKey
\* for /api/records; apiKey, groupListName or an array userProfileIds for
\* /api/contact/list) is answered 400, no outbound request is issued, and
\* pinnedBaseUrl is left as it was.
C1_ValidationRejects ==
    [][\A c \in Calls :
          (Starts(c) /\ Lacking(req'[c]))
             => /\ pc'[c] = "done"
                /\ res'[c].sent
                /\ res'[c].status = 400
                /\ contacted'[c] = <<>>
                /\ pinnedBaseUrl' = pinnedBaseUrl]_vars

C1_Witness ==
    \E c \in Calls :
        /\ pc[c] = "done"
        /\ IsContact(req[c])
        /\ Truthy(SentField(req[c], "apiKey"))
        /\ Truthy(SentField(req[c], "groupListName"))
        /\ SentField(req[c], "userProfileIds") = Str("p1")
        /\ res[c].status = 400
        /\ pinnedBaseUrl # NoBase

\* The first base of the ordering answered with success and call c ended there.
FirstBaseSucceeded(c) ==
    /\ Succeeded(c)
    /\ errors[c] = <<>>
    /\ resp[c].kind = "response"
    /\ IsRecords(req[c]) => resp[c].status = 200
    /\ IsContact(req[c]) => resp[c].status \in 200..299

EarlierFailed(c) ==
    /\ idx[c] > 1
    /\ Len(errors[c]) = idx[c] - 1
    /\ \A i \in 1..Len(errors[c]) : errors[c][i].base = basesToTry[c][i]

\* The part of C3 that does not concern the body the client receives: a
\* success pins the base that succeeded and sends its status, pinnedBaseUrl
\* changes in no other step, and a call that starts while a base is pinned
\* tries that base first.
C3_Pinning(c) ==
    /\ (SucceedsNow(c) /\ EarlierFailed(c))
          => /\ pinnedBaseUrl' = basesToTry[c][idx[c]]
             /\ resp'[c].kind = "response"
             /\ res'[c].sent
             /\ res'[c].status = resp'[c].status
    /\ (pc'[c] = "try" /\ Starts(c) /\ pinnedBaseUrl # NoBase)
          => /\ basesToTry'[c][1] = pinnedBaseUrl
             /\ contacted'[c] = <<pinnedBaseUrl>>

C4_ExhaustedReport ==
    \A c \in Calls :
        Exhausted(c)
            => /\ res[c].sent
               /\ res[c].status = 502
               /\ res[c].body.kind = "json"
               /\ res[c].body.value.error = "All base URLs failed"
               /\ LET attempts == res[c].body.value.attempts IN
                    /\ Len(attempts) = Len(BASE_URLS)
                    /\ Len(contacted[c]) = Len(BASE_URLS)
                    /\ \A i \in 1..Len(attempts) : attempts[i].base = contacted[c][i]
                    /\ \A b \in Bases :
                          Cardinality({i \in 1..Len(attempts) : attempts[i].base = b}) = 1

C4_Witness ==
    \E c \in Calls :
        /\ Exhausted(c)
        /\ IsContact(req[c])
        /\ basesToTry[c][1] = BASE_URLS[2]
        /\ res[c].status = 502
        /\ Len(res[c].body.value.attempts) = Len(BASE_URLS)

\* Every call in flight is waiting for the answer of the pinned base.
AllAwaitPinned == \A c \in Calls : pc[c] = "try" => basesToTry[c][idx[c]] = pinnedBaseUrl
\* An attempt on base b fails in this step.
FailsNow(b) ==
    \E c \in Calls :
        /\ pc[c] = "try"
        /\ Len(errors'[c]) = Len(errors[c]) + 1
        /\ errors'[c][Len(errors'[c])].base = b

\* C5, as claimed: once base H is pinned and no attempt on H fails, the
\* pinned base stays H, whatever calls run, those that computed their
\* ordering before H was pinned included.
C5_Original ==
    [][(pinnedBaseUrl # NoBase /\ pinSteady /\ pinSteady')
          => pinnedBaseUrl' = pinnedBaseUrl]_vars

\* C5, amended: once base H is pinned and every call in flight is waiting
\* for H (none is left that computed its ordering before H was pinned), then
\* as long as no attempt on H fails the pinned base stays H and every call,
\* new or in flight, is still waiting for H: no number of further calls,
\* one after the other or together, moves the pin.
C5_PinStable ==
    [][(pinnedBaseUrl # NoBase /\ AllAwaitPinned /\ ~FailsNow(pinnedBaseUrl))
          => (pinnedBaseUrl' = pinnedBaseUrl /\ AllAwaitPinned')]_vars

C5_Witness ==
    \E c, d \in Calls :
        /\ c # d
        /\ pinnedBaseUrl = BASE_URLS[2]
        /\ pinSteady
        /\ Succeeded(c)
        /\ errors[c] = <<>>
        /\ basesToTry[c][1] = BASE_URLS[2]
        /\ pc[d] = "try"
        /\ basesToTry[d][idx[d]] = BASE_URLS[2]

\* Position of base b in the fixed list.
Pos(b) == CHOOSE k \in DOMAIN BASE_URLS : BASE_URLS[k] = b

\* s is the ordering for pinned base p: the fixed list when nothing is
\* pinned; otherwise p, then the other bases in the order of the fixed list.
Ordering(p, s) ==
    IF p = NoBase THEN s = BASE_URLS
    ELSE /\ Len(s) = Len(BASE_URLS)
         /\ s[1] = p
         /\ \A i \in 2..Len(s) : s[i] \in Bases \ {p}
         /\ \A b \in Bases \ {p} : \E i \in 2..Len(s) : s[i] = b
         /\ \A i, j \in 2..Len(s) : i < j => Pos(s[i]) < Pos(s[j])

\* C6: the ordering a call computes is the fixed list when no base is
\* pinned, and otherwise the pinned base followed by the other bases in the
\* order of the fixed list; computing it changes no state.
C6_Ordering ==
    [][\A c \in Calls :
          (Starts(c) /\ pc'[c] = "try")
             => /\ Ordering(pinnedBaseUrl, basesToTry'[c])
                /\ pinnedBaseUrl' = pinnedBaseUrl]_vars

C6_Witness ==
    \E c \in Calls :
        /\ pc[c] = "try"
        /\ idx[c] = 1
        /\ pinnedBaseUrl = BASE_URLS[2]
        /\ basesToTry[c] = <<BASE_URLS[2], BASE_URLS[1], BASE_URLS[3]>>

\* Call c takes the step in which one of its attempts ends.
AttemptEnds(c) == pc[c] = "try" /\ (pc'[c] # "try" \/ idx'[c] # idx[c])

\* C7: a record-fetch attempt succeeds on status 200 only (any other
\* status, 201 and 204 included, is recorded as a failure, pins nothing, and
\* the loop moves on), while a contact-list attempt succeeds on every 2xx
\* status (it pins the base and the relay returns that status and body).
C7_SuccessPredicates ==
    [][\A c \in Calls :
          (AttemptEnds(c) /\ resp'[c].kind = "response")
             => LET s == resp'[c].status
                    base == basesToTry[c][idx[c]]
                    ok == IF IsRecords(req[c]) THEN s = 200 ELSE s \in 200..299
                IN  IF ok
                    THEN /\ pinnedBaseUrl' = base
                         /\ pc'[c] = "done"
                         /\ errors'[c] = errors[c]
                         /\ upstreamResponse'[c] = [status |-> s, body |-> resp'[c].body]
                    ELSE /\ pinnedBaseUrl' = pinnedBaseUrl
                         /\ errors'[c] =
                               Append(errors[c],
                                      [base |-> base, status |-> s, body |-> resp'[c].body])
                         /\ idx'[c] = idx[c] + 1
                         /\ idx[c] < Len(basesToTry[c])
                               => /\ pc'[c] = "try"
                                  /\ contacted'[c] =
                                        Append(contacted[c], basesToTry[c][idx[c] + 1])]_vars

C7_Witness ==
    \E c \in Calls :
        /\ IsRecords(req[c])
        /\ pc[c] = "try"
        /\ idx[c] = 3
        /\ Len(errors[c]) = 2
        /\ "status" \in DOMAIN errors[c][1] /\ errors[c][1].status = 201
        /\ "status" \in DOMAIN errors[c][2] /\ errors[c][2].status = 204
        /\ pinnedBaseUrl = NoBase

\* C8: the status of the response to a proxied request is 400 (a required
\* field is lacking), 500 (an internal error, before any attempt), 502
\* (every base failed) or the status of the base that satisfied the
\* operation's success predicate; the status of a failed attempt is the
\* client's status only as the 502 of an exhausted call, and a transport
\* failure never gives a 500.
C8_OnlyAggregateErrors ==
    \A c \in Calls :
        (pc[c] = "done" /\ (IsRecords(req[c]) \/ IsContact(req[c])))
            => /\ res[c].sent
               /\ \/ res[c].status = 400 /\ Lacking(req[c]) /\ contacted[c] = <<>>
                  \/ res[c].status = 500 /\ contacted[c] = <<>> /\ errors[c] = <<>>
                  \/ res[c].status = 502 /\ Exhausted(c)
                  \/ /\ Succeeded(c)
                     /\ resp[c].kind = "response"
                     /\ res[c].status = resp[c].status
                     /\ IsRecords(req[c]) => res[c].status = 200
                     /\ IsContact(req[c]) => res[c].status \in 200..299
               /\ \A i \in 1..Len(errors[c]) :
                     /\ "status" \in DOMAIN errors[c][i] /\ errors[c][i].status = res[c].status
                           => res[c].status = 502 /\ Exhausted(c)
                     /\ "error" \in DOMAIN errors[c][i] => res[c].status # 500

C8_Witness ==
    \E c \in Calls :
        /\ pc[c] = "done"
        /\ IsContact(req[c])
        /\ Len(errors[c]) = 2
        /\ "status" \in DOMAIN errors[c][1] /\ errors[c][1].status = 503
        /\ "error" \in DOMAIN errors[c][2]
        /\ res[c].status = 201

GenericError == Json([error |-> "Internal server error"])

\* The request of call c makes the handler throw: objectKey cannot be
\* percent-encoded.
Throws(r) ==
    IsRecords(r) /\ ~Lacking(r) /\ SentField(r, "objectKey") = Str(LoneSurrogate)

\* C9, as claimed: an internal failure while handling a proxied request, a
\* malformed JSON parse for one, is answered 500 with the generic body.
C9_Original ==
    \A c \in Calls :
        (pc[c] = "done" /\ (IsRecords(req[c]) \/ IsContact(req[c]))
            /\ (req[c].raw.kind = "malformed" \/ Throws(req[c])))
            => res[c].status = 500 /\ res[c].body = GenericError

\* C9, amended: a request body that is not JSON is no internal failure (it
\* is handled as {} and the request is answered 400 without any attempt);
\* an exception thrown while a proxied request is handled (objectKey that
\* cannot be percent-encoded) is answered 500, and every 500 carries the
\* generic body {"error": "Internal server error"} and nothing else.
C9_InternalError ==
    \A c \in Calls :
        (pc[c] = "done" /\ (IsRecords(req[c]) \/ IsContact(req[c])))
            => /\ req[c].raw.kind = "malformed"
                     => res[c].status = 400 /\ contacted[c] = <<>>
               /\ Throws(req[c]) => res[c].sent /\ res[c].status = 500
               /\ res[c].status = 500
                     => /\ res[c].body = GenericError
                        /\ res[c].headers["Content-Type"] = "application/json"

C9_Witness ==
    \E c \in Calls :
        /\ pc[c] = "done"
        /\ Throws(req[c])
        /\ res[c].status = 500
        /\ res[c].body = GenericError

\* Response r carries the three CORS headers.
HasCors(r) ==
    /\ {"Access-Control-Allow-Origin", "Access-Control-Allow-Methods",
        "Access-Control-Allow-Headers"} \subseteq DOMAIN r.headers
    /\ r.headers["Access-Control-Allow-Origin"] = "*"
    /\ r.headers["Access-Control-Allow-Methods"] = "GET,POST,OPTIONS"
    /\ r.headers["Access-Control-Allow-Headers"] = "Content-Type"

\* C10: every response sent carries the three CORS headers, and an OPTIONS
\* request to any path is answered 204 with no outbound request and no
\* change of pinnedBaseUrl.
C10_Cors ==
    [][\A c \in Calls :
          /\ res'[c].sent => HasCors(res'[c])
          /\ (Starts(c) /\ req'[c].method = "OPTIONS")
                => /\ pc'[c] = "done"
                   /\ res'[c].sent
                   /\ res'[c].status = 204
                   /\ contacted'[c] = <<>>
                   /\ pinnedBaseUrl' = pinnedBaseUrl]_vars

C10_Witness ==
    \E c \in Calls :
        /\ pc[c] = "done"
        /\ req[c].method = "OPTIONS"
        /\ req[c].url.path = "/api/records"
        /\ res[c].status = 204
        /\ HasCors(res[c])
        /\ pinnedBaseUrl # NoBase

\* The file the request's path names: "/" names the index document, and a
\* query is no part of the path.
NamedFile(r) == IF r.url.path = "/" THEN "/index.html" ELSE r.url.path
\* The request is a GET of an existing regular file.
GetsFile(r) == r.method = "GET" /\ NamedFile(r) \in Files \ Directories

\* C11: a GET of "/" is answered 200 with the content of the index
\* document; every request that is not OPTIONS, not one of the two proxied
\* POST routes and not a GET of an existing regular file is answered 404
\* with the body {"error": "Not found"}.
C11_StaticFiles ==
    \A c \in Calls :
        pc[c] = "done"
            => /\ (req[c].method = "GET" /\ req[c].url.path = "/")
                     => /\ res[c].sent
                        /\ res[c].status = 200
                        /\ res[c].body = FileData("/index.html")
                        /\ res[c].headers["Content-Type"] = "text/html; charset=utf-8"
               /\ GetsFile(req[c])
                     => res[c].status = 200 /\ res[c].body = FileData(NamedFile(req[c]))
               /\ (/\ req[c].method # "OPTIONS"
                   /\ ~IsRecords(req[c])
                   /\ ~IsContact(req[c])
                   /\ ~GetsFile(req[c]))
                     => /\ res[c].sent
                        /\ res[c].status = 404
                        /\ res[c].body = Json([error |-> "Not found"])
                        /\ contacted[c] = <<>>

C11_Witness ==
    \E c, d \in Calls :
        /\ pc[c] = "done"
        /\ req[c].method = "GET"
        /\ req[c].url = [path |-> "/", query |-> "v=1"]
        /\ res[c].status = 200
        /\ res[c].body = FileData("/index.html")
        /\ pinnedBaseUrl # NoBase

\* No base occurs twice in s.
NoDup(s) == \A i, j \in DOMAIN s : i # j => s[i] # s[j]
\* Call c is in its relay loop or has left it.
InRelay(c) == pc[c] # "idle" /\ contacted[c] # <<>>

\* The position and the locals of call c that C12 is about.
Locals(c) == <<pc[c], idx[c], basesToTry[c], contacted[c], errors[c]>>

\* C12: within one relay call every base is contacted at most once, in any
\* interleaving with other calls: the ordering is computed once, when the
\* call starts, and stays as computed whatever other calls write to the
\* pinned base; the bases contacted so far are the first bases of that
\* ordering, one after the other, none twice and none skipped; a call ends
\* with the answer of the base contacted last (Success) or after every base
\* has been contacted once (Exhausted).
C12_OncePerBase ==
    [][\A c \in Calls :
          /\ pc[c] = "try" => basesToTry'[c] = basesToTry[c]
          /\ (pc[c] = "try" /\ Locals(c)' # Locals(c))
                => \/ contacted'[c] = contacted[c] /\ idx'[c] = idx[c]
                   \/ contacted'[c] = contacted[c] /\ Exhausted(c)'
                   \/ /\ Len(contacted'[c]) = Len(contacted[c]) + 1
                      /\ SubSeq(contacted'[c], 1, Len(contacted[c])) = contacted[c]
          /\ (InRelay(c)' /\ Locals(c)' # Locals(c))
                => /\ Len(contacted'[c]) <= Len(BASE_URLS)
                   /\ contacted'[c] = SubSeq(basesToTry'[c], 1, Len(contacted'[c]))
                   /\ NoDup(contacted'[c])
                   /\ Len(errors'[c]) = Len(contacted'[c]) - (IF Exhausted(c)' THEN 0 ELSE 1)
                   /\ \A i \in DOMAIN errors'[c] : errors'[c][i].base = contacted'[c][i]
                   /\ Exhausted(c)' => {contacted'[c][i] : i \in DOMAIN contacted'[c]} = Bases]_vars

C12_Witness ==
    \E c, d \in Calls :
        /\ c # d
        /\ pc[c] = "try"
        /\ basesToTry[c] = BASE_URLS
        /\ contacted[c] = SubSeq(BASE_URLS, 1, 3)
        /\ Succeeded(d)
        /\ basesToTry[d] = BASE_URLS
        /\ Len(contacted[d]) = 2
        /\ pinnedBaseUrl = BASE_URLS[2]

\* The outcome o satisfies the success predicate of the operation of
\* request r.
OpSuccess(r, o) ==
    /\ o.kind = "response"
    /\ IF IsRecords(r) THEN FetchOk(o) ELSE PostOk(o)

\* C13: no base is pinned at startup; the pinned base is written exactly
\* when an attempt satisfies the success predicate of its operation, and
\* then becomes the base of that attempt; no other step changes it, and
\* once a base is pinned no step makes it unset again.
C13_PinLifecycle ==
    /\ pinnedBaseUrl = NoBase
    /\ [][/\ pinnedBaseUrl # NoBase => pinnedBaseUrl' # NoBase
          /\ pinnedBaseUrl' # pinnedBaseUrl
                => \E c \in Calls :
                      /\ AttemptEnds(c)
                      /\ OpSuccess(req[c], resp'[c])
                      /\ pinnedBaseUrl' = basesToTry[c][idx[c]]
          /\ \A c \in Calls :
                AttemptEnds(c)
                   => IF OpSuccess(req[c], resp'[c])
                      THEN pinnedBaseUrl' = basesToTry[c][idx[c]] /\ SucceedsNow(c)
                      ELSE pinnedBaseUrl' = pinnedBaseUrl /\ ~SucceedsNow(c)
          /\ \A c \in Calls :
                Starts(c) => pinnedBaseUrl' = pinnedBaseUrl]_vars

C13_Witness ==
    \E c \in Calls :
        /\ Succeeded(c)
        /\ basesToTry[c][1] = BASE_URLS[2]
        /\ idx[c] = 3
        /\ OpSuccess(req[c], resp[c])
        /\ pinnedBaseUrl = basesToTry[c][3]

\* C14: when calls in flight together succeed on different bases, each
\* success overwrites the pinned base with its own base, whatever was pinned
\* before, so that after all of them the pinned base is the base of the
\* success processed last; and the pinned base is always unset or a base on
\* which an attempt succeeded: a step leaves it as it was or sets it to the
\* base of an attempt that succeeds in that step, and a failing attempt
\* never sets it.
C14_LastWriterWins ==
    /\ pinnedBaseUrl = NoBase
    /\ [][/\ \A c \in Calls :
                SucceedsNow(c) => pinnedBaseUrl' = contacted[c][Len(contacted[c])]
          /\ \/ pinnedBaseUrl' = pinnedBaseUrl
             \/ \E c \in Calls :
                   /\ SucceedsNow(c)
                   /\ OpSuccess(req[c], resp'[c])
                   /\ Len(errors'[c]) < Len(contacted'[c])
                   /\ pinnedBaseUrl' = contacted'[c][Len(contacted'[c])]
          /\ \A b \in Bases : FailsNow(b) => pinnedBaseUrl' = pinnedBaseUrl]_vars

\* Two calls in flight together succeeded on different bases; the one that
\* succeeded on the first base was processed last.
C14_Witness ==
    \E c, d \in Calls :
        /\ c # d
        /\ Succeeded(c)
        /\ Succeeded(d)
        /\ basesToTry[c] = BASE_URLS
        /\ basesToTry[d] = BASE_URLS
        /\ contacted[c] = <<BASE_URLS[1], BASE_URLS[2]>>
        /\ contacted[d] = <<BASE_URLS[1]>>
        /\ pinnedBaseUrl = BASE_URLS[1]

\* The attempt of call c that ends in this step fails.
AttemptFails(c) == AttemptEnds(c) /\ ~OpSuccess(req[c], resp'[c])
\* The last record of the attempts of call c.
LastError(c) == errors[c][Len(errors[c])]

\* C15: a failed attempt never aborts the relay call.  A response that is
\* not a success is recorded with exactly the base, the status and the body
\* of that response; a transport failure is recorded with exactly the base
\* and the error message; in both cases the records made before stay, and
\* the loop goes on to the next base of the ordering, or, after the last
\* one, ends with the 502 that lists all records.  When every base fails by
\* transport error, every entry of the attempts has an error field.
C15_FailureRecorded ==
    [][\A c \in Calls :
          /\ AttemptFails(c)
                => /\ Len(errors'[c]) = Len(errors[c]) + 1
                   /\ SubSeq(errors'[c], 1, Len(errors[c])) = errors[c]
                   /\ LastError(c)'.base = basesToTry[c][idx[c]]
                   /\ IF resp'[c].kind = "response"
                      THEN /\ DOMAIN LastError(c)' = {"base", "status", "body"}
                           /\ LastError(c)'.status = resp'[c].status
                           /\ LastError(c)'.body = resp'[c].body
                      ELSE /\ DOMAIN LastError(c)' = {"base", "error"}
                           /\ LastError(c)'.error = resp'[c].message
                   /\ IF idx[c] < Len(basesToTry[c])
                      THEN /\ pc'[c] = "try"
                           /\ ~res'[c].sent
                           /\ idx'[c] = idx[c] + 1
                           /\ contacted'[c] = Append(contacted[c], basesToTry[c][idx[c] + 1])
                      ELSE /\ pc'[c] = "done"
                           /\ res'[c].status = 502
                           /\ res'[c].body =
                                 Json([error |-> "All base URLs failed", attempts |-> errors'[c]])
          /\ (Exhausted(c)' /\ \A i \in DOMAIN errors'[c] : "status" \notin DOMAIN errors'[c][i])
                => /\ Len(errors'[c]) = Len(BASE_URLS)
                   /\ \A i \in DOMAIN errors'[c] : "error" \in DOMAIN errors'[c][i]
                   /\ res'[c].body.value.attempts = errors'[c]]_vars

C15_Witness ==
    \E c \in Calls :
        /\ Exhausted(c)
        /\ res[c].status = 502
        /\ Len(res[c].body.value.attempts) = Len(BASE_URLS)
        /\ \A i \in DOMAIN errors[c] : DOMAIN errors[c][i] = {"base", "error"}
        /\ IsContact(req[c])

\* The response of a call that ended in Success: the status and body of the
\* successful attempt.
SuccessSent(c) ==
    /\ Succeeded(c)
    /\ OpSuccess(req[c], resp[c])
    /\ res[c].sent
    /\ res[c].status = resp[c].status
    /\ pc[c] = "done"
\* The response of a call that ended in Exhausted: the 502 with all records.
ExhaustedSent(c) ==
    /\ Exhausted(c)
    /\ res[c].sent
    /\ res[c].status = 502
    /\ res[c].body = Json([error |-> "All base URLs failed", attempts |-> errors[c]])

NextAfterSuccess(c, d) ==
    /\ Starts(d)
    /\ pc'[d] = "try"
    /\ c # d
    /\ Succeeded(c)
    /\ contacted[c][Len(contacted[c])] = pinnedBaseUrl

\* C17: the pinned base is one value shared by both operations: after a
\* contact-list call succeeded on base H, the record-fetch call that starts
\* next tries H first, and after a record-fetch call succeeded on base H,
\* the contact-list call that starts next tries H first (then the other
\* bases in the order of the fixed list).
C17_SharedPin ==
    [][\A d, c \in Calls :
          /\ (NextAfterSuccess(c, d) /\ IsContact(req[c]) /\ IsRecords(req'[d]))
                => /\ contacted'[d] = <<pinnedBaseUrl>>
                   /\ Ordering(pinnedBaseUrl, basesToTry'[d])
          /\ (NextAfterSuccess(c, d) /\ IsRecords(req[c]) /\ IsContact(req'[d]))
                => /\ contacted'[d] = <<pinnedBaseUrl>>
                   /\ Ordering(pinnedBaseUrl, basesToTry'[d])]_vars

\* A contact-list call succeeded on the second base, and the record-fetch
\* call started after it waits for that base before any other.
C17_Witness ==
    \E c, d \in Calls :
        /\ c # d
        /\ Succeeded(c)
        /\ IsContact(req[c])
        /\ contacted[c] = <<BASE_URLS[1], BASE_URLS[2]>>
        /\ pinnedBaseUrl = BASE_URLS[2]
        /\ pc[d] = "try"
        /\ IsRecords(req[d])
        /\ idx[d] = 1
        /\ basesToTry[d][1] = BASE_URLS[2]

\* C18: a relay call that ends Exhausted leaves the pinned base as it was:
\* none of its failing attempts writes it, so when the call is over the
\* pinned base is still the one its ordering was computed from; a pinned
\* base that has started to fail stays pinned and is the first base of every
\* call that starts later, and only a successful attempt moves the pin.
C18_ExhaustedKeepsPin ==
    [][/\ \A c \in Calls :
             /\ AttemptFails(c) => pinnedBaseUrl' = pinnedBaseUrl
             /\ Exhausted(c)'
                   => /\ pinnedBaseUrl' = pinnedBaseUrl
                      /\ Ordering(pinnedBaseUrl', basesToTry'[c])
             /\ (Starts(c) /\ pc'[c] = "try" /\ pinnedBaseUrl # NoBase)
                   => basesToTry'[c][1] = pinnedBaseUrl /\ pinnedBaseUrl' = pinnedBaseUrl
       /\ pinnedBaseUrl' # pinnedBaseUrl
             => \E c \in Calls : SucceedsNow(c) /\ pinnedBaseUrl' = basesToTry[c][idx[c]]]_vars

\* Every base failed, the pinned one first; it is still pinned.
C18_Witness ==
    \E c \in Calls :
        /\ Exhausted(c)
        /\ res[c].status = 502
        /\ pinnedBaseUrl = BASE_URLS[2]
        /\ ~pinSteady
        /\ basesToTry[c][1] = BASE_URLS[2]
        /\ errors[c][1].base = BASE_URLS[2]

\* s is a permutation of the fixed list: as long as the list, every
\* configured base in it exactly once, and nothing else in it.
IsPermutation(s) ==
    /\ Len(s) = Len(BASE_URLS)
    /\ \A i \in DOMAIN s : s[i] \in Bases
    /\ \A b \in Bases : Cardinality({i \in DOMAIN s : s[i] = b}) = 1

\* C19: in every reachable state the pinned base is unset or one of the
\* configured bases, and so the ordering getBasesToTry computes in that
\* state, like the ordering of every call in its relay loop, is a
\* permutation of the fixed list.
C19_Permutation ==
    /\ pinnedBaseUrl \in Bases \cup {NoBase}
    /\ IsPermutation(getBasesToTry)
    /\ \A c \in Calls : InRelay(c) => IsPermutation(basesToTry[c])

C19_Witness ==
    \E c \in Calls :
        /\ pc[c] = "try"
        /\ pinnedBaseUrl = BASE_URLS[Len(BASE_URLS)]
        /\ basesToTry[c][1] = BASE_URLS[Len(BASE_URLS)]
        /\ basesToTry[c][2] = BASE_URLS[1]
        /\ IsPermutation(basesToTry[c])
        /\ idx[c] = 2

====
